---- MODULE Spec2Model ----
(***************************************************************************)
(* Model of tools/harness-automation/parse_topofile.py: device_calculate   *)
(* reads a topology file line by line, reports every selected case and     *)
(* folds its vendor tally into the test-bed tally, then derives "Any".     *)
(*                                                                         *)
(* Text is modelled as a sequence of symbols.  The symbols "-", ",", ":",  *)
(* "#" and " " are the characters the regular expressions of the script    *)
(* look at; every other symbol ("5.1.1", "Leader", "ARM", ...) stands for  *)
(* a run of characters that holds none of them.  A line is the text of a   *)
(* line of the file without its line terminator.                           *)
(***************************************************************************)
EXTENDS Integers, Sequences, FiniteSets

VARIABLES
    topo_file,            \* the lines of the file (input, never written)
    case_list0,           \* the case_list argument as passed in
    case_list,            \* the case_list argument, mutated by remove()
    lineno,               \* number of lines the for loop has fetched
    pc,                   \* "loop", "done" (returned) or "raised"
    exc,                  \* the exception that left device_calculate
    testbed_vendor_dict,  \* Counter, as a sequence of [key, val] in insertion order
    visited,              \* line numbers that reached logging.info('case %s:')
    out_cases,            \* logged 'case %s:' arguments
    out_pairs,            \* logged 'role-vendor pair: %s' arguments
    out_tallies,          \* logged 'vendor devices  : %s' arguments
    out_unrecognized,     \* logged 'Unrecognized format: %s' lines
    out_notfound,         \* logged 'Case %s not found' lists
    out_final             \* logged 'Testbed needed vendor devices:%s' dicts

vars == <<topo_file, case_list0, case_list, lineno, pc, exc, testbed_vendor_dict,
          visited, out_cases, out_pairs, out_tallies, out_unrecognized,
          out_notfound, out_final>>

MAX_VENDOR_DEVICE == 32

\* Longest file the model reads.
MaxLines == 3

AnyVendor == <<"Any">>
All == <<"all">>

(***************************************************************************)
(* Text helpers                                                            *)
(***************************************************************************)
Max(a, b) == IF a >= b THEN a ELSE b

Tail0(s) == SubSeq(s, 2, Len(s))
Front0(s) == SubSeq(s, 1, Len(s) - 1)

RECURSIVE LStrip(_)
LStrip(s) == IF s # <<>> /\ s[1] = " " THEN LStrip(Tail0(s)) ELSE s

RECURSIVE RStrip(_)
RStrip(s) == IF s # <<>> /\ s[Len(s)] = " " THEN RStrip(Front0(s)) ELSE s

\* line.strip()
Strip(s) == RStrip(LStrip(s))

\* re.match(r'\s*#.*', line)
IsComment(line) == LET t == LStrip(line) IN t # <<>> /\ t[1] = "#"

Positions(s, c) == {i \in 1..Len(s) : s[i] = c}

SetMax(S) == CHOOSE m \in S : \A x \in S : x <= m
SetMin(S) == CHOOSE m \in S : \A x \in S : m <= x

\* re.match(r'(.*)-(.*)', line): the first group is greedy, so the '-' that
\* separates the groups is the last one of the line.
DashPos(line) == SetMax(Positions(line, "-"))

\* matched_case is not None
Matches(line) == Positions(line, "-") # {}

\* matched_case.group(1), matched_case.group(2)
Group1(line) == SubSeq(line, 1, DashPos(line) - 1)
Group2(line) == SubSeq(line, DashPos(line) + 1, Len(line))

\* re.split(sep, s) for a one-character separator
RECURSIVE Split(_, _)
Split(s, sep) ==
    IF Positions(s, sep) = {} THEN <<s>>
    ELSE LET p == SetMin(Positions(s, sep))
         IN <<SubSeq(s, 1, p - 1)>> \o Split(SubSeq(s, p + 1, Len(s)), sep)

\* role_vendor_list: one tuple per device pair, tuple(re.split(':', device_pair))
RoleVendorList(role_vendor_str) ==
    LET raw == Split(role_vendor_str, ",")
    IN [i \in 1..Len(raw) |-> Split(raw[i], ":")]

(***************************************************************************)
(* Counter, kept in insertion order                                        *)
(***************************************************************************)
Has(d, k) == \E i \in 1..Len(d) : d[i].key = k

\* d[k]: a Counter answers 0 for a missing key and does not insert it
Get(d, k) == IF Has(d, k) THEN d[CHOOSE i \in 1..Len(d) : d[i].key = k].val ELSE 0

\* d[k] = v
Put(d, k, v) ==
    IF Has(d, k)
    THEN [i \in 1..Len(d) |-> IF d[i].key = k THEN [key |-> k, val |-> v] ELSE d[i]]
    ELSE Append(d, [key |-> k, val |-> v])

Keys(d) == {d[i].key : i \in 1..Len(d)}

(***************************************************************************)
(* The steps of device_calculate                                           *)
(***************************************************************************)
\* 'all' in case_list
HasAll(cl) == \E i \in 1..Len(cl) : cl[i] = All

\* x in case_list
InList(cl, x) == \E i \in 1..Len(cl) : cl[i] = x

\* case_list.remove(x): drops the first occurrence of x
Remove(cl, x) ==
    LET p == SetMin({i \in 1..Len(cl) : cl[i] = x})
    IN SubSeq(cl, 1, p - 1) \o SubSeq(cl, p + 1, Len(cl))

\* A plausible slip: the matched case is never removed from the list.
KeepCaseList(cl, id) == cl

\* if 'all' not in case_list: case_list.remove(matched_case.group(1))
NextCaseList(cl, id) == IF ~HasAll(cl) THEN Remove(cl, id) ELSE cl

\* A plausible slip: 'if not matched_case: continue' in front of the filter.
ClassifySkipNoMatch(line, cl) ==
    IF IsComment(line) THEN "comment"
    ELSE IF ~Matches(line) THEN (IF line = <<>> THEN "AttributeError" ELSE "unselected")
    ELSE IF ~HasAll(cl) /\ ~InList(cl, Group1(line)) THEN "unselected"
    ELSE "case"

\* A plausible slip: the filter forgets the 'all' sentinel.
ClassifyNoAll(line, cl) ==
    IF IsComment(line) THEN "comment"
    ELSE IF ~Matches(line) THEN "AttributeError"
    ELSE IF ~InList(cl, Group1(line)) THEN "unselected"
    ELSE "case"

\* What the try block does with a stripped line up to logging 'case %s:':
\* "comment" and "unselected" are the two continue statements, and
\* "AttributeError" is matched_case.group(1) on None, which the filter
\* evaluates when 'all' is not in case_list and the logging call otherwise.
Classify(line, cl) ==
    IF IsComment(line) THEN "comment"
    ELSE IF ~HasAll(cl)
         THEN (IF ~Matches(line) THEN "AttributeError"
               ELSE IF ~InList(cl, Group1(line)) THEN "unselected"
               ELSE "case")
         ELSE (IF ~Matches(line) THEN "AttributeError" ELSE "case")

\* A plausible slip: adding the case count to the test-bed count.
FoldedSum(t, c) == t + 1

\* A plausible slip: the case count overwrites the test-bed count.
FoldedOverwrite(t, c) == c

\* max(testbed_vendor_dict[vendor], case_vendor_dict[vendor])
Folded(t, c) == Max(t, c)

\* for _, vendor in role_vendor_list: ... from pair i on.  A tuple that does
\* not hold exactly two parts fails to unpack (ok = FALSE) after the pairs
\* in front of it have been counted.
RECURSIVE Tally(_, _, _, _)
Tally(rvl, i, cd, td) ==
    IF i > Len(rvl) THEN [ok |-> TRUE, case |-> cd, testbed |-> td]
    ELSE IF Len(rvl[i]) # 2 THEN [ok |-> FALSE, case |-> cd, testbed |-> td]
    ELSE LET vendor == rvl[i][2]
             cd2 == Put(cd, vendor, Get(cd, vendor) + 1)
             td2 == Put(td, vendor, Folded(Get(td, vendor), Get(cd2, vendor)))
         IN Tally(rvl, i + 1, cd2, td2)

\* A plausible slip: the guard key != 'Any' is forgotten.
CountAfterNoGuard(d, key, count_any) == count_any - Get(d, key)

\* if key != 'Any': count_any -= testbed_vendor_dict[key]
CountAfter(d, key, count_any) ==
    IF key # AnyVendor THEN count_any - Get(d, key) ELSE count_any

\* for key in testbed_vendor_dict: ... from key i on.  Only the value of an
\* existing key is written, so the keys and their order stay as they are.
RECURSIVE AnyLoop(_, _, _)
AnyLoop(d, i, count_any) ==
    IF i > Len(d) THEN d
    ELSE LET c == CountAfter(d, d[i].key, count_any)
             d2 == IF Has(d, AnyVendor) THEN Put(d, AnyVendor, c) ELSE d
         IN AnyLoop(d2, i + 1, c)

(***************************************************************************)
(* Inputs                                                                  *)
(***************************************************************************)
RECURSIVE Pairs(_, _, _)
Pairs(n, role, vendor) ==
    IF n = 0 THEN <<>>
    ELSE IF n = 1 THEN <<role, ":", vendor>>
    ELSE <<role, ":", vendor, ",">> \o Pairs(n - 1, role, vendor)

\* Two cases that together need more devices than the test bed holds:
\* MAX_VENDOR_DEVICE \div 2 + 1 of NXP, and as many of ARM next to one "Any".
ManyNXP ==
    <<"5.3.1", "-">> \o Pairs(MAX_VENDOR_DEVICE \div 2 + 1, "Router", "NXP")
ManyARM ==
    <<"5.4.1", "-", "Leader", ":", "Any", ",">>
        \o Pairs(MAX_VENDOR_DEVICE \div 2 + 1, "Router", "ARM")

Lines ==
    { <<"5.1.1", "-", "Leader", ":", "ARM", ",", "Router_1", ":", "ARM">>,
      <<"5.2.1", "-", "Leader", ":", "Any", ",", "Router_1", ":", "NXP">>,
      <<"5.1.1", "-", "Leader", ":", "Any">>,
      <<" ", "#", " ", "5.1.1", "-", "Leader", ":", "ARM">>,
      <<>>,
      <<"5.1.1", " ", "Leader", ":", "ARM">>,
      <<"5.2.1", "-", "Leader", ":", "ARM", ",", "Router_1">>,
      <<"5.2.1", "-", "Leader", ":", "ARM", ":", "x">>,
      <<"5.1.1", "-", "Router", "-", "1", ":", "ARM", " ">>,
      ManyNXP,
      ManyARM }

CaseLists ==
    { <<All>>,
      <<All, <<"5.1.1">>>>,
      << <<"5.1.1">> >>,
      << <<"9.9.9">> >>,
      << <<"5.1.1">>, <<"5.2.1">> >>,
      << <<"5.1.1">>, <<"5.1.1">> >>,
      << <<"5.4.1">>, <<"5.3.1">> >>,
      << <<"5.1.1", "-", "Router">>, <<"9.9.9">> >> }

Files == UNION {[1..n -> Lines] : n \in 0..MaxLines}

Init ==
    /\ topo_file \in Files
    /\ case_list0 \in CaseLists
    /\ case_list = case_list0
    /\ lineno = 0
    /\ pc = "loop"
    /\ exc = "none"
    /\ testbed_vendor_dict = <<>>
    /\ visited = <<>>
    /\ out_cases = <<>>
    /\ out_pairs = <<>>
    /\ out_tallies = <<>>
    /\ out_unrecognized = <<>>
    /\ out_notfound = <<>>
    /\ out_final = <<>>

\* The line the loop body works on: line = line.strip().  ('if not line: break'
\* tests the line as read, which still holds its terminator, so it never breaks.)
CurLine == Strip(topo_file[lineno + 1])

InLoop == pc = "loop" /\ lineno < Len(topo_file)

\* if re.match(r'\s*#.*', line): continue
SkipComment ==
    /\ InLoop
    /\ Classify(CurLine, case_list) = "comment"
    /\ lineno' = lineno + 1
    /\ UNCHANGED <<topo_file, case_list0, case_list, pc, exc, testbed_vendor_dict,
                   visited, out_cases, out_pairs, out_tallies, out_unrecognized,
                   out_notfound, out_final>>

\* if 'all' not in case_list and matched_case.group(1) not in case_list: continue
SkipUnselected ==
    /\ InLoop
    /\ Classify(CurLine, case_list) = "unselected"
    /\ lineno' = lineno + 1
    /\ UNCHANGED <<topo_file, case_list0, case_list, pc, exc, testbed_vendor_dict,
                   visited, out_cases, out_pairs, out_tallies, out_unrecognized,
                   out_notfound, out_final>>

\* matched_case is None: group(1) raises inside the try block, the handler logs
\* 'Unrecognized format' with the line and re-raises.
RaiseUnrecognized ==
    /\ InLoop
    /\ Classify(CurLine, case_list) = "AttributeError"
    /\ lineno' = lineno + 1
    /\ out_unrecognized' = Append(out_unrecognized, CurLine)
    /\ pc' = "raised"
    /\ exc' = "AttributeError"
    /\ UNCHANGED <<topo_file, case_list0, case_list, testbed_vendor_dict,
                   visited, out_cases, out_pairs, out_tallies,
                   out_notfound, out_final>>

\* A selected case whose device pairs all unpack: reported, removed from an
\* explicit case_list, counted and folded into the test-bed tally.
FoldCase ==
    /\ InLoop
    /\ Classify(CurLine, case_list) = "case"
    /\ LET rvl == RoleVendorList(Group2(CurLine))
           t == Tally(rvl, 1, <<>>, testbed_vendor_dict)
       IN /\ t.ok
          /\ out_pairs' = Append(out_pairs, rvl)
          /\ testbed_vendor_dict' = t.testbed
          /\ out_tallies' = Append(out_tallies, t.case)
    /\ lineno' = lineno + 1
    /\ visited' = Append(visited, lineno + 1)
    /\ out_cases' = Append(out_cases, Group1(CurLine))
    /\ case_list' = NextCaseList(case_list, Group1(CurLine))
    /\ UNCHANGED <<topo_file, case_list0, pc, exc, out_unrecognized,
                   out_notfound, out_final>>

\* A selected case with a device pair that is not two parts: the try block
\* completes (the case and its pairs are logged), then the unpacking in the
\* tally loop raises ValueError outside the try block.
RaiseUnpack ==
    /\ InLoop
    /\ Classify(CurLine, case_list) = "case"
    /\ LET rvl == RoleVendorList(Group2(CurLine))
           t == Tally(rvl, 1, <<>>, testbed_vendor_dict)
       IN /\ ~t.ok
          /\ out_pairs' = Append(out_pairs, rvl)
          /\ testbed_vendor_dict' = t.testbed
    /\ lineno' = lineno + 1
    /\ visited' = Append(visited, lineno + 1)
    /\ out_cases' = Append(out_cases, Group1(CurLine))
    /\ case_list' = NextCaseList(case_list, Group1(CurLine))
    /\ pc' = "raised"
    /\ exc' = "ValueError"
    /\ UNCHANGED <<topo_file, case_list0, out_tallies, out_unrecognized,
                   out_notfound, out_final>>

\* After the loop: the 'not found' report, the 'Any' override, the final report.
Finalize ==
    /\ pc = "loop"
    /\ lineno = Len(topo_file)
    /\ out_notfound' = IF case_list # <<>> /\ ~HasAll(case_list)
                       THEN Append(out_notfound, case_list)
                       ELSE out_notfound
    /\ testbed_vendor_dict' = AnyLoop(testbed_vendor_dict, 1, MAX_VENDOR_DEVICE)
    /\ out_final' = Append(out_final, testbed_vendor_dict')
    /\ pc' = "done"
    /\ UNCHANGED <<topo_file, case_list0, case_list, lineno, exc, visited,
                   out_cases, out_pairs, out_tallies, out_unrecognized>>

Next ==
    \/ SkipComment
    \/ SkipUnselected
    \/ RaiseUnrecognized
    \/ FoldCase
    \/ RaiseUnpack
    \/ Finalize

Spec == Init /\ [][Next]_vars

(***************************************************************************)
(* Vocabulary of the properties                                            *)
(***************************************************************************)
\* The k-th line as the loop body sees it.
Line(k) == Strip(topo_file[k])

IsBlank(k) == Line(k) = <<>>

\* A case record line: not a comment, and it holds a '-'.
IsRecord(k) == ~IsComment(Line(k)) /\ "-" \in {Line(k)[i] : i \in 1..Len(Line(k))}

\* Not blank, not a comment, and no '-'.
NoDashLine(k) ==
    /\ ~IsBlank(k)
    /\ ~IsComment(Line(k))
    /\ \A i \in 1..Len(Line(k)) : Line(k)[i] # "-"

\* The text of a record in front of its first '-'.
BeforeFirstDash(k) ==
    LET l == Line(k)
        p == CHOOSE i \in 1..Len(l) : l[i] = "-" /\ \A h \in 1..(i - 1) : l[h] # "-"
    IN SubSeq(l, 1, p - 1)

\* The line numbers of the first n lines that are case records.
Records(n) == {k \in 1..n : IsRecord(k)}

\* The case id the run reported for line k (k is one of visited).
ReportedId(k) == out_cases[CHOOSE j \in 1..Len(visited) : visited[j] = k]

Range(s) == {s[i] : i \in 1..Len(s)}

\* How often x stands in the list cl.
Count(cl, x) == Cardinality({i \in 1..Len(cl) : cl[i] = x})

\* Number of (role, vendor) pairs of a reported pair list whose vendor is v.
PairCount(rvl, v) == Cardinality({i \in 1..Len(rvl) : Len(rvl[i]) = 2 /\ rvl[i][2] = v})

\* The vendors of the reported pair lists.
VendorsOf(rvl) == {rvl[i][2] : i \in {h \in 1..Len(rvl) : Len(rvl[h]) = 2}}
VendorsSeen == UNION {VendorsOf(out_pairs[j]) : j \in 1..Len(out_pairs)}

RECURSIVE SumOthers(_)
SumOthers(d) ==
    IF d = <<>> THEN 0
    ELSE (IF d[1].key = AnyVendor THEN 0 ELSE d[1].val) + SumOthers(Tail0(d))

Explicit == ~HasAll(case_list0)

(***************************************************************************)
(* Properties                                                              *)
(***************************************************************************)
\* C1: after a run without error, the final tally of every vendor other than
\* "Any" is the largest number of pairs with that vendor in one processed
\* record, and a vendor of no processed record is not a key.
C1_TestbedIsMaxPerVendor ==
    pc = "done" =>
        /\ Keys(testbed_vendor_dict) \ {AnyVendor} = VendorsSeen \ {AnyVendor}
        /\ \A v \in VendorsSeen \ {AnyVendor} :
              Get(testbed_vendor_dict, v) =
                  SetMax({PairCount(out_pairs[j], v) : j \in 1..Len(out_pairs)})
        /\ out_final = <<testbed_vendor_dict>>

\* Two processed records hold the same vendor, once and twice or more.
C1_Witness ==
    /\ pc = "done"
    /\ \E j1, j2 \in 1..Len(out_pairs) :
          /\ j1 # j2
          /\ PairCount(out_pairs[j1], <<"ARM">>) >= 2
          /\ PairCount(out_pairs[j2], <<"ARM">>) >= 1
    /\ Has(testbed_vendor_dict, <<"NXP">>)

\* C2: at the end of a run, "Any" is a key exactly if some folded record held
\* it, and its value is then MAX_VENDOR_DEVICE minus the sum of the other
\* vendors' final tallies, negative or not, wherever "Any" stands among the keys.
C2_AnyIsRemainder ==
    pc = "done" =>
        IF AnyVendor \in VendorsSeen
        THEN /\ Has(testbed_vendor_dict, AnyVendor)
             /\ Get(testbed_vendor_dict, AnyVendor) =
                    MAX_VENDOR_DEVICE - SumOthers(testbed_vendor_dict)
        ELSE ~Has(testbed_vendor_dict, AnyVendor)

\* "Any" ends negative, standing between two other keys.
C2_Witness ==
    /\ pc = "done"
    /\ Len(testbed_vendor_dict) = 3
    /\ testbed_vendor_dict[2].key = AnyVendor
    /\ testbed_vendor_dict[2].val < 0

\* C3: a blank line or a comment line never ends the run: the run does not
\* raise on it.
C3_BlankAndCommentSkipped ==
    \A k \in 1..lineno :
        (IsBlank(k) \/ IsComment(Line(k))) => ~(pc = "raised" /\ lineno = k)

\* C4: a fetched line that is not blank, not a comment and holds no '-' ends
\* the run there, for any selection: the line is reported, no line after it
\* is fetched, and neither the unmatched report nor the final tally appears.
C4_NoDashLineAborts ==
    \A k \in 1..lineno :
        NoDashLine(k) =>
            /\ pc = "raised"
            /\ lineno = k
            /\ out_unrecognized = <<Line(k)>>
            /\ out_notfound = <<>>
            /\ out_final = <<>>
            /\ \A j \in 1..Len(visited) : visited[j] < k

\* Such a line after a processed case and in front of another line, with an
\* explicit selection.
C4_Witness ==
    /\ pc = "raised"
    /\ Explicit
    /\ NoDashLine(lineno)
    /\ Len(visited) >= 1
    /\ lineno < Len(topo_file)

\* C5: a selected record with a device pair that is not two parts ends the
\* run with the offending line reported and no final tally.
C5_MalformedPairReported ==
    \A j \in 1..Len(visited) :
        (\E i \in 1..Len(out_pairs[j]) : Len(out_pairs[j][i]) # 2) =>
            /\ pc = "raised"
            /\ lineno = visited[j]
            /\ out_unrecognized = <<Line(visited[j])>>
            /\ out_final = <<>>

\* C6: after a run without error with an explicit selection, the unmatched
\* report lists exactly the requested identifiers that are the case id of no
\* line; nothing is reported when there is none, or with "all".
C6_UnmatchedReportExact ==
    pc = "done" =>
        LET unmatched == {c \in Range(case_list0) :
                             \A k \in Records(Len(topo_file)) : Group1(Line(k)) # c}
        IN IF ~Explicit \/ unmatched = {}
           THEN out_notfound = <<>>
           ELSE /\ Len(out_notfound) = 1
                /\ Range(out_notfound[1]) = unmatched

\* C7: with "all", the records among the fetched lines are each processed
\* once, in stream order, repeated case ids included, and the selection list
\* stays as passed in.
C7_AllVisitsEveryRecordOnce ==
    ~Explicit =>
        /\ case_list = case_list0
        /\ Range(visited) = Records(lineno)
        /\ \A i, j \in 1..Len(visited) : i < j => visited[i] < visited[j]
        /\ Len(out_cases) = Len(visited)
        /\ Len(out_pairs) = Len(visited)
        /\ Len(out_tallies) = IF exc = "ValueError" THEN Len(visited) - 1
                              ELSE Len(visited)

\* With "all", two lines with one case id were both processed.
C7_Witness ==
    /\ pc = "done"
    /\ ~Explicit
    /\ Len(visited) = 3
    /\ out_cases[1] = out_cases[3]
    /\ out_cases[1] # out_cases[2]

\* C8: the reported case id of a processed record is the text in front of
\* the first '-' of its line.
C8_SplitAtFirstDash ==
    \A j \in 1..Len(visited) : out_cases[j] = BeforeFirstDash(visited[j])

\* C9 as stated: no step lowers the tally of a vendor that is a key.
C9_NeverDecreases ==
    [][\A v \in Keys(testbed_vendor_dict) :
          Get(testbed_vendor_dict', v) >= Get(testbed_vendor_dict, v)]_vars

\* C9: no step removes a key or lowers the tally of a vendor other than "Any",
\* and no step of the loop lowers the tally of "Any"; the override at the end
\* may lower "Any".
C9_NeverDecreasesButAnyAtEnd ==
    [][\A v \in Keys(testbed_vendor_dict) :
          /\ Has(testbed_vendor_dict', v)
          /\ (v # AnyVendor \/ pc' # "done") =>
                Get(testbed_vendor_dict', v) >= Get(testbed_vendor_dict, v)]_vars

\* A folded record needs fewer ARM devices than the test bed counts, and the
\* override at the end has put "Any" below the count the loop gave it.
C9_Witness ==
    /\ pc = "done"
    /\ Has(testbed_vendor_dict, AnyVendor)
    /\ Get(testbed_vendor_dict, AnyVendor) < 1
    /\ \E j \in 1..Len(out_tallies) :
          /\ Get(out_tallies[j], <<"ARM">>) >= 1
          /\ Get(out_tallies[j], <<"ARM">>) < Get(testbed_vendor_dict, <<"ARM">>)

\* For an identifier that occurs once in an explicit list: the processed lines
\* with that case id are the first fetched record with it and no other, and
\* the identifier stays in the list until that record is met.
C10_Processed ==
    Explicit =>
        \A c \in Range(case_list0) :
            Count(case_list0, c) = 1 =>
                LET M == {k \in Records(lineno) : Group1(Line(k)) = c}
                IN /\ {k \in Range(visited) : ReportedId(k) = c} =
                          (IF M = {} THEN {} ELSE {SetMin(M)})
                   /\ InList(case_list, c) <=> M = {}

\* The step on a later record with such an identifier passes over the line.
C10_LaterStep ==
    (/\ Explicit
     /\ InLoop
     /\ IsRecord(lineno + 1)
     /\ Count(case_list0, Group1(CurLine)) = 1
     /\ \E k \in Records(lineno) : Group1(Line(k)) = Group1(CurLine))
    => /\ lineno' = lineno + 1
       /\ pc' = "loop"
       /\ UNCHANGED <<testbed_vendor_dict, case_list, visited, out_cases,
                      out_pairs, out_tallies>>

\* C10: with an explicit list, for an identifier that occurs once in it, at
\* most one line is processed, the first in stream order with that case id;
\* every later line with it is passed over, and that step leaves the test-bed
\* tally, the selection and the reports as they are.
C10_FirstMatchOnly == [](C10_Processed) /\ [][C10_LaterStep]_vars

\* The identifier is requested once, two lines carry it, the first was
\* processed and the second passed over.
C10_Witness ==
    /\ pc = "done"
    /\ case_list0 = << <<"5.1.1">> >>
    /\ Len(visited) = 1
    /\ \E k \in Records(Len(topo_file)) :
          /\ k > visited[1]
          /\ Group1(Line(k)) = <<"5.1.1">>
          /\ Group1(Line(visited[1])) = <<"5.1.1">>

====
